---- MODULE Spec2Model ----
(***************************************************************************)
(* Model of fix_chars.py: a script that reads src/pages/Designer.jsx,      *)
(* applies seven re.sub rules, then a table of str.replace substitutions,  *)
(* writes the result back and prints a completion message.                 *)
(*                                                                         *)
(* A text is a sequence of characters.  An ASCII character is the          *)
(* one-character string itself; a non-ASCII character is named by its code *)
(* point as Python's ascii() prints it ("xe2" is U+00E2, "u2022" is        *)
(* U+2022).  Every re.sub call is read as re.sub(pattern, repl, content)   *)
(* and every table row as key: value, the pattern or key being the text    *)
(* between the first quote and the quote that precedes the separating      *)
(* comma or colon (lines 13, 14, 28 and 33 carry an apostrophe inside the  *)
(* pattern or key).                                                        *)
(***************************************************************************)
EXTENDS Integers, Sequences, FiniteSets, TLC

VARIABLES file, input, content, pc, k, stdout, other, applied

vars == <<file, input, content, pc, k, stdout, other, applied>>

(***************************************************************************)
(* Characters of the source's string literals.                             *)
(***************************************************************************)
aCirc == "xe2"
bullet == "u2022"
dblH == "u2550"
emDash == "u2014"
pound == "xa3"
sCaron == "u0161"
eth == "xf0"
Ydia == "u0178"
low9 == "u201e"
sect == "xa7"
ordf == "xaa"
iexcl == "xa1"
yen == "xa5"
OElig == "u0152"
oelig == "u0153"
ellip == "u2026"
shy == "xad"
iDia == "xef"
cedil == "xb8"
acute == "xb4"
SCaron == "u0160"
dq == "\""
apos == "'"
sp == " "

Box == <<aCirc, bullet>>

TopWidth == 48
JunctionWidth == 47

Eq(n) == [i \in 1..n |-> "="]

BoxClass == {aCirc, bullet, dblH}

(***************************************************************************)
(* The seven structural rules, lines 8-14, as pre [cls]+ suf -> repl.      *)
(* An empty cls means the pattern is the literal pre.                      *)
(***************************************************************************)
TopBorderShort ==
  [pre |-> Box \o <<dq>>, cls |-> BoxClass, suf |-> Box \o <<emDash>>,
   repl |-> Eq(TopWidth - 1)]

TopBorder ==
  [pre |-> Box \o <<dq>>, cls |-> BoxClass, suf |-> Box \o <<emDash>>,
   repl |-> Eq(TopWidth)]

JunctionBorderNoSpace ==
  [pre |-> Box, cls |-> BoxClass, suf |-> Box \o <<pound>>,
   repl |-> <<"|", "|">> \o Eq(JunctionWidth)]

JunctionBorder ==
  [pre |-> Box \o <<sp>>, cls |-> BoxClass, suf |-> Box \o <<pound>>,
   repl |-> <<"|", "|">> \o Eq(JunctionWidth)]

BottomBorder ==
  [pre |-> Box \o <<sCaron>>, cls |-> BoxClass, suf |-> Box,
   repl |-> Eq(TopWidth)]

SeparatorPrefix ==
  [pre |-> Box \o Box \o Box \o <<sp>>, cls |-> {}, suf |-> <<>>,
   repl |-> <<"=", "=", "=", sp>>]

SeparatorSuffixNoSpace ==
  [pre |-> <<sp>> \o Box \o Box \o Box, cls |-> {}, suf |-> <<>>,
   repl |-> <<"=", "=", "=">>]

SeparatorSuffix ==
  [pre |-> <<sp>> \o Box \o Box \o Box, cls |-> {}, suf |-> <<>>,
   repl |-> <<sp, "=", "=", "=">>]

PipeQuote ==
  [pre |-> Box \o <<apos, sp>>, cls |-> {}, suf |-> <<>>,
   repl |-> <<"|", "|", sp>>]

SpaceQuoteKeepsSpace ==
  [pre |-> <<sp>> \o Box \o <<apos>>, cls |-> {}, suf |-> <<>>,
   repl |-> <<sp>>]

SpaceQuote ==
  [pre |-> <<sp>> \o Box \o <<apos>>, cls |-> {}, suf |-> <<>>,
   repl |-> <<>>]

Rules ==
  <<TopBorder, JunctionBorder, BottomBorder, SeparatorPrefix,
    SeparatorSuffix, PipeQuote, SpaceQuote>>

NumRules == Len(Rules)

(***************************************************************************)
(* re.sub: every non-overlapping match, leftmost first, the character      *)
(* class repeated greedily with backtracking.                              *)
(***************************************************************************)
At(t, i, p) ==
  /\ i + Len(p) - 1 <= Len(t)
  /\ \A j \in 1..Len(p) : t[i + j - 1] = p[j]

RECURSIVE RunLen(_, _, _)
RunLen(t, i, cls) ==
  IF i <= Len(t) /\ t[i] \in cls THEN 1 + RunLen(t, i + 1, cls) ELSE 0

Largest(S) == CHOOSE x \in S : \A y \in S : y <= x

\* index just after the match of r that starts at i, or 0 if none starts there
MatchEnd(r, t, i) ==
  IF ~At(t, i, r.pre) THEN 0
  ELSE IF r.cls = {} THEN i + Len(r.pre)
  ELSE LET s == i + Len(r.pre)
           n == RunLen(t, s, r.cls)
           ks == {m \in 1..n : At(t, s + m, r.suf)}
       IN  IF ks = {} THEN 0 ELSE s + Largest(ks) + Len(r.suf)

RECURSIVE SubFromSkip(_, _, _)
SubFromSkip(r, t, i) ==
  IF i > Len(t) THEN <<>>
  ELSE LET e == MatchEnd(r, t, i)
       IN  IF e = 0 THEN <<t[i]>> \o SubFromSkip(r, t, i + 1)
           ELSE r.repl \o SubFromSkip(r, t, e + 1)

RECURSIVE SubFrom(_, _, _)
SubFrom(r, t, i) ==
  IF i > Len(t) THEN <<>>
  ELSE LET e == MatchEnd(r, t, i)
       IN  IF e = 0 THEN <<t[i]>> \o SubFrom(r, t, i + 1)
           ELSE r.repl \o SubFrom(r, t, e)

\* re.sub(..., count=1)
re_sub_once(r, t) ==
  IF \E i \in 1..Len(t) : MatchEnd(r, t, i) # 0
  THEN LET i == CHOOSE x \in 1..Len(t) :
                  /\ MatchEnd(r, t, x) # 0
                  /\ \A y \in 1..(x - 1) : MatchEnd(r, t, y) = 0
       IN  SubSeq(t, 1, i - 1) \o r.repl \o SubSeq(t, MatchEnd(r, t, i), Len(t))
  ELSE t

re_sub(r, t) == SubFrom(r, t, 1)

(***************************************************************************)
(* str.replace: every non-overlapping occurrence of old, leftmost first.   *)
(***************************************************************************)
RECURSIVE ReplaceFrom(_, _, _, _)
ReplaceFrom(old, new, t, i) ==
  IF i > Len(t) THEN <<>>
  ELSE IF At(t, i, old) THEN new \o ReplaceFrom(old, new, t, i + Len(old))
  ELSE <<t[i]>> \o ReplaceFrom(old, new, t, i + 1)

replace(t, old, new) == ReplaceFrom(old, new, t, 1)

(***************************************************************************)
(* The dict display of lines 17-35, row by row as written.                 *)
(***************************************************************************)
Face == <<eth, Ydia>>

NOTE == <<"[", "N", "O", "T", "E", "]">>
SYNC == <<"[", "S", "Y", "N", "C", "]">>
TEST == <<"[", "T", "E", "S", "T", "]">>
API == <<"[", "A", "P", "I", "]">>
DATA == <<"[", "D", "A", "T", "A", "]">>
ERROR == <<"[", "E", "R", "R", "O", "R", "]">>
OK == <<"[", "O", "K", "]">>
CONFIG == <<"[", "C", "O", "N", "F", "I", "G", "]">>
SKIP == <<"[", "S", "K", "I", "P", "]">>
DELETE == <<"[", "D", "E", "L", "E", "T", "E", "]">>
SEARCH == <<"[", "S", "E", "A", "R", "C", "H", "]">>
WARN == <<"[", "W", "A", "R", "N", "]">>
DEBUG == <<"[", "D", "E", "B", "U", "G", "]">>
SUCCESS == <<"[", "S", "U", "C", "C", "E", "S", "S", "]">>
STATS == <<"[", "S", "T", "A", "T", "S", "]">>

Rows ==
  << [old |-> Face \o <<dq>>, new |-> NOTE],
     [old |-> Face \o <<dq, low9>>, new |-> SYNC],
     [old |-> Face \o <<sect, ordf>>, new |-> TEST],
     [old |-> Face \o <<dq, iexcl>>, new |-> API],
     [old |-> Face \o <<dq, yen>>, new |-> DATA],
     [old |-> <<aCirc, OElig>>, new |-> ERROR],
     [old |-> <<aCirc, oelig, ellip>>, new |-> OK],
     [old |-> <<aCirc, oelig, dq>>, new |-> OK],
     [old |-> Face \o <<dq, sect>>, new |-> CONFIG],
     [old |-> <<aCirc, shy, iDia, cedil>>, new |-> SKIP],
     [old |-> Face \o <<emDash, apos, iDia, cedil>>, new |-> DELETE],
     [old |-> Face \o <<dq>>, new |-> SEARCH],
     [old |-> <<aCirc, sCaron, sp, iDia, cedil>>, new |-> WARN],
     [old |-> Face \o <<dq, acute>>, new |-> DEBUG],
     [old |-> Face \o <<dq>>, new |-> DEBUG],
     [old |-> Face \o <<apos>>, new |-> SUCCESS],
     [old |-> Face \o <<dq, SCaron>>, new |-> STATS] >>

(***************************************************************************)
(* A dict display keeps a repeated key at the place of its first row and   *)
(* gives it the value of its last row.                                     *)
(***************************************************************************)
LastRow(rows, key) ==
  Largest({j \in 1..Len(rows) : rows[j].old = key})

RECURSIVE DictFrom(_, _)
DictFrom(rows, i) ==
  IF i > Len(rows) THEN <<>>
  ELSE IF \E j \in 1..(i - 1) : rows[j].old = rows[i].old
       THEN DictFrom(rows, i + 1)
       ELSE <<[old |-> rows[i].old,
               new |-> rows[LastRow(rows, rows[i].old)].new]>>
            \o DictFrom(rows, i + 1)

replacements == DictFrom(Rows, 1)

NumItems == Len(replacements)

(***************************************************************************)
(* The two phases as functions of the text: lines 8-14 in order, then the  *)
(* loop of lines 37-38 over the dict's items in insertion order.           *)
(***************************************************************************)
RECURSIVE StructuralFrom(_, _)
StructuralFrom(t, n) ==
  IF n > NumRules THEN t ELSE StructuralFrom(re_sub(Rules[n], t), n + 1)

Structural(t) == StructuralFrom(t, 1)

RECURSIVE SymbolicFrom(_, _)
SymbolicFrom(t, n) ==
  IF n > NumItems THEN t
  ELSE SymbolicFrom(replace(t, replacements[n].old, replacements[n].new), n + 1)

Symbolic(t) == SymbolicFrom(t, 1)

Message == "Fixed corrupted characters in Designer.jsx"

(***************************************************************************)
(* Bounded input texts: concatenations of a few fragments.                 *)
(***************************************************************************)
MaxBorderFrags == 4
MaxFrags == 3
MaxPartial == 2

RECURSIVE Flatten(_)
Flatten(ss) == IF ss = <<>> THEN <<>> ELSE Head(ss) \o Flatten(Tail(ss))

Concats(F, n) == {Flatten(ss) : ss \in UNION {[1..m -> F] : m \in 0..n}}

Triple == Box \o Box \o Box
Quote == Box \o <<apos>>

TopFrags == {Box \o <<dq>>, Box \o <<emDash>>, Box, <<dblH>>, <<"x">>}
JunctionFrags == {Box \o <<sp>>, Box \o <<pound>>, Box, <<dblH>>, <<"x">>}
BottomFrags == {Box \o <<sCaron>>, Box, <<dblH>>, <<bullet>>, <<"x">>}
SepFrags ==
  {Triple, Triple \o <<sp>>, Box, <<sp>>, Quote, <<sp>> \o Quote, <<apos>>, Face,
   <<"x">>}
SymFrags ==
  {Face \o <<dq>>, Face \o <<dq, low9>>, <<aCirc, OElig>>, <<aCirc, oelig, ellip>>,
   Face, <<low9>>, <<"x">>}

ExampleIn ==
  Triple \o <<sp, "S", "e", "c", "t", "i", "o", "n", sp>> \o Triple \o <<"\n">>
  \o <<aCirc, OElig, sp, "f", "a", "i", "l", "e", "d", "\n">>
  \o <<aCirc, oelig, ellip, sp, "p", "a", "s", "s", "e", "d", "\n">>

ExampleOut ==
  <<"=", "=", "=", sp, "S", "e", "c", "t", "i", "o", "n", sp, "=", "=", "=", "\n">>
  \o ERROR \o <<sp, "f", "a", "i", "l", "e", "d", "\n">>
  \o OK \o <<sp, "p", "a", "s", "s", "e", "d", "\n">>

RowKeys == {Rows[i].old : i \in 1..Len(Rows)}

Inputs ==
  Concats(TopFrags, MaxBorderFrags) \cup Concats(JunctionFrags, MaxBorderFrags)
  \cup Concats(BottomFrags, MaxBorderFrags) \cup Concats(SepFrags, MaxFrags)
  \cup Concats(SymFrags, MaxFrags) \cup RowKeys \cup {ExampleIn}

(***************************************************************************)
(* The run of the script.                                                  *)
(***************************************************************************)
Init ==
  /\ file \in Inputs
  /\ input = file
  /\ content = <<>>
  /\ pc = "load"
  /\ k = 0
  /\ stdout = <<>>
  /\ other = <<>>
  /\ applied = {}

\* lines 4-5: open(..., 'r', encoding='utf-8') and f.read()
Load ==
  /\ pc = "load"
  /\ content' = file
  /\ pc' = "rule"
  /\ k' = 1
  /\ UNCHANGED <<file, input, stdout, other, applied>>

\* lines 4-5 raising (no such file, no permission, bytes that are not UTF-8);
\* a run that stops before line 4 leaves the same state
LoadFail ==
  /\ pc = "load"
  /\ pc' = "loadFailed"
  /\ UNCHANGED <<file, input, content, k, stdout, other, applied>>

\* lines 8-14: the k-th re.sub statement
Rule ==
  /\ pc = "rule"
  /\ content' = re_sub(Rules[k], content)
  /\ IF k < NumRules THEN pc' = "rule" /\ k' = k + 1
                     ELSE pc' = "loop" /\ k' = 1
  /\ UNCHANGED <<file, input, stdout, other, applied>>

\* lines 37-38: one iteration of the loop over replacements.items()
Replace ==
  /\ pc = "loop"
  /\ content' = replace(content, replacements[k].old, replacements[k].new)
  /\ IF k < NumItems THEN pc' = "loop" /\ k' = k + 1
                     ELSE pc' = "open" /\ k' = 0
  /\ UNCHANGED <<file, input, stdout, other, applied>>

OpenAppend ==
  /\ pc = "open"
  /\ file' = file
  /\ pc' = "write"
  /\ UNCHANGED <<input, content, k, stdout, other, applied>>

\* line 41: open(..., 'w') truncates the file
OpenWrite ==
  /\ pc = "open"
  /\ file' = <<>>
  /\ pc' = "write"
  /\ UNCHANGED <<input, content, k, stdout, other, applied>>

\* line 41 raising (no permission): nothing is truncated
OpenWriteFail ==
  /\ pc = "open"
  /\ pc' = "openFailed"
  /\ UNCHANGED <<file, input, content, k, stdout, other, applied>>

\* line 42 and the close of the with block
Write ==
  /\ pc = "write"
  /\ file' = file \o content
  /\ pc' = "report"
  /\ UNCHANGED <<input, content, k, stdout, other, applied>>

\* line 42 raising part-way (disk full, I/O error): a proper prefix is on disk
WriteFail ==
  /\ pc = "write"
  /\ \E n \in 0..MaxPartial :
       /\ n < Len(content)
       /\ file' = file \o SubSeq(content, 1, n)
  /\ pc' = "writeFailed"
  /\ UNCHANGED <<input, content, k, stdout, other, applied>>

ReportBeforeWrite ==
  /\ pc \in {"open", "report"}
  /\ stdout' = Append(stdout, Message)
  /\ pc' = "done"
  /\ UNCHANGED <<file, input, content, k, other, applied>>

\* line 44
Report ==
  /\ pc = "report"
  /\ stdout' = Append(stdout, Message)
  /\ pc' = "done"
  /\ UNCHANGED <<file, input, content, k, other, applied>>

Next ==
  \/ Load
  \/ LoadFail
  \/ Rule
  \/ Replace
  \/ OpenWrite
  \/ OpenWriteFail
  \/ Write
  \/ WriteFail
  \/ Report

Spec == Init /\ [][Next]_vars

(***************************************************************************)
(* Vocabulary of the properties.                                           *)
(***************************************************************************)
Literal(p) == [pre |-> p, cls |-> {}, suf |-> <<>>, repl |-> <<>>]

HasMatch(r, t) == \E i \in 1..Len(t) : MatchEnd(r, t, i) # 0

Occurs(p, t) == \E i \in 1..Len(t) : At(t, i, p)

\* no structural pattern matches in t and no key of the table occurs in t
Clean(t) ==
  /\ \A n \in 1..NumRules : ~HasMatch(Rules[n], t)
  /\ \A i \in 1..Len(Rows) : ~Occurs(Rows[i].old, t)

\* the positions of t that lie inside a match of r starting anywhere
CoveredBy(r, t) ==
  {p \in 1..Len(t) : \E i \in 1..p : MatchEnd(r, t, i) > p}

RECURSIVE KeptFrom(_, _, _)
KeptFrom(t, C, i) ==
  IF i > Len(t) THEN <<>>
  ELSE IF i \in C THEN KeptFrom(t, C, i + 1)
  ELSE <<t[i]>> \o KeptFrom(t, C, i + 1)

\* the characters of t outside the positions C, in order
Kept(t, C) == KeptFrom(t, C, 1)

RECURSIVE SubseqFrom(_, _, _, _)
SubseqFrom(u, i, t, j) ==
  IF i > Len(u) THEN TRUE
  ELSE IF j > Len(t) THEN FALSE
  ELSE IF u[i] = t[j] THEN SubseqFrom(u, i + 1, t, j + 1)
  ELSE SubseqFrom(u, i, t, j + 1)

\* u can be read in t from left to right, skipping characters of t
IsSubseq(u, t) == SubseqFrom(u, 1, t, 1)

NoA(t) == \A p \in 1..Len(t) : t[p] # aCirc

\* m is, from its first to its last character, a match of pre [cls]+ suf
IsFull(r, m) ==
  /\ Len(m) > Len(r.pre) + Len(r.suf)
  /\ At(m, 1, r.pre)
  /\ At(m, Len(m) - Len(r.suf) + 1, r.suf)
  /\ \A p \in (Len(r.pre) + 1)..(Len(m) - Len(r.suf)) : m[p] \in r.cls

Before(t, i) == SubSeq(t, 1, i - 1)
After(t, j) == SubSeq(t, j + 1, Len(t))

(***************************************************************************)
(* C1.  The run on the example input ends with the example output in       *)
(* memory and on disk: "=== Section ===\n[ERROR] failed\n[OK] passed\n".   *)
(***************************************************************************)
EndToEndExample ==
  (pc = "done" /\ input = ExampleIn) => (content = ExampleOut /\ file = ExampleOut)

EndToEndExampleReached ==
  pc = "done" /\ input = ExampleIn /\ file = ExampleOut /\ stdout = <<Message>>

(***************************************************************************)
(* C2.  For each of the 17 rows as written, a file holding only the row's  *)
(* corrupted token ends as exactly the row's bracket tag.                  *)
(***************************************************************************)
EachRowAlone ==
  \A i \in 1..Len(Rows) :
    (pc = "open" /\ input = Rows[i].old) => content = Rows[i].new

(***************************************************************************)
(* C5.  A text with no match of any structural pattern and no occurrence   *)
(* of any table key comes out of the run as it went in, in memory and on   *)
(* disk.                                                                   *)
(***************************************************************************)
RoundTripClean ==
  (pc = "done" /\ Clean(input)) => (content = input /\ file = input)

RoundTripCleanReached ==
  /\ pc = "done"
  /\ input = Box \o <<"x">> \o Box
  /\ Clean(input)
  /\ file = input

(***************************************************************************)
(* C6, as stated.  The characters of the input that lie outside every      *)
(* match of the seven patterns and every occurrence of a table key, taken  *)
(* on the input, can be read in order in the output.                       *)
(***************************************************************************)
InputCovered(t) ==
  UNION ({CoveredBy(Rules[n], t) : n \in 1..NumRules}
         \cup {CoveredBy(Literal(Rows[i].old), t) : i \in 1..Len(Rows)})

StepPattern ==
  IF pc = "rule" THEN Rules[k] ELSE Literal(replacements[k].old)

PassthroughStep ==
  pc \in {"rule", "loop"} =>
    IsSubseq(Kept(content, CoveredBy(StepPattern, content)), content')

StepOrder ==
  {<<"load", "rule">>, <<"load", "loadFailed">>, <<"rule", "loop">>,
   <<"loop", "open">>, <<"open", "write">>, <<"open", "openFailed">>,
   <<"write", "report">>, <<"write", "writeFailed">>, <<"report", "done">>}

InOrder == pc' # pc => <<pc, pc'>> \in StepOrder

Sequenced ==
  /\ Len(stdout) <= 1
  /\ stdout # <<>> => /\ pc = "done"
                      /\ file = Symbolic(Structural(input))
  /\ pc # "done" => stdout = <<>>
  /\ pc = "loadFailed" => file = input /\ content = <<>>

\* C8: Sequenced holds in every state and every step is InOrder.
FailFast == []Sequenced /\ [][InOrder]_vars

FailFastReached ==
  pc = "done" /\ stdout = <<Message>> /\ file # input /\ file = content

(***************************************************************************)
(* C9.  A text X M Y, with M a whole match of a border pattern and no      *)
(* U+00E2 in X or Y, becomes X R Y, R being the same string whatever the   *)
(* length of M.                                                            *)
(***************************************************************************)
BorderCase(n, R) ==
  (pc = "rule" /\ k = n + 1) =>
    \A i \in 1..Len(input) : \A j \in i..Len(input) :
      ( /\ IsFull(Rules[n], SubSeq(input, i, j))
        /\ NoA(Before(input, i))
        /\ NoA(After(input, j)) )
      => content = Before(input, i) \o R \o After(input, j)

\* C9 as stated: every top or bottom border match becomes 48 '=', every
\* junction border match becomes one '|' and 47 '='.
BorderOnePipe ==
  /\ BorderCase(1, Eq(48))
  /\ BorderCase(2, <<"|">> \o Eq(47))
  /\ BorderCase(3, Eq(48))

\* C9 amended: every top or bottom border match becomes 48 '=', every
\* junction border match becomes two '|' and 47 '='.
BorderFixedStrings ==
  /\ BorderCase(1, Eq(48))
  /\ BorderCase(2, <<"|", "|">> \o Eq(47))
  /\ BorderCase(3, Eq(48))

BorderReached ==
  /\ pc = "rule"
  /\ k = 3
  /\ input = <<"x">> \o Box \o <<sp, dblH>> \o Box \o <<pound>>
  /\ content = <<"x", "|", "|">> \o Eq(47)

(***************************************************************************)
(* C10.  The seventh rule on a text X ' ' quote-token Y with no other      *)
(* occurrence of ' ' quote-token.                                          *)
(***************************************************************************)
SpaceQuoteToken == <<sp, aCirc, bullet, apos>>

QuoteStep(R) ==
  (pc = "rule" /\ k = 7) =>
    \A i \in 1..Len(content) :
      ( /\ At(content, i, SpaceQuoteToken)
        /\ \A j \in 1..Len(content) : j # i => ~At(content, j, SpaceQuoteToken) )
      => content' = Before(content, i) \o R \o After(content, i + 3)

\* C10 as stated: X ' ' quote-token Y becomes X ' ' Y (the space stays).
SpaceQuoteLeavesSpace == [][QuoteStep(<<sp>>)]_vars

\* C10 amended: X ' ' quote-token Y becomes X Y (the space goes with the
\* token).
SpaceQuoteRemoved == [][QuoteStep(<<>>)]_vars

SpaceQuoteReached ==
  /\ pc = "loop"
  /\ k = 1
  /\ input = <<"x", sp>> \o Quote \o <<"x">>
  /\ content = <<"x", "x">>

(***************************************************************************)
(* The structural phase run twice over a text (lines 8-14, then again).    *)
(***************************************************************************)
StructInputs ==
  Concats(TopFrags, MaxBorderFrags) \cup Concats(JunctionFrags, MaxBorderFrags)
  \cup Concats(BottomFrags, MaxBorderFrags) \cup Concats(SepFrags, MaxFrags)

InitTwice ==
  /\ input \in StructInputs
  /\ file = input
  /\ content = input
  /\ pc = "pass1"
  /\ k = 1
  /\ stdout = <<>>
  /\ other = <<>>
  /\ applied = {}

FirstPass ==
  /\ pc = "pass1"
  /\ content' = re_sub(Rules[k], content)
  /\ IF k < NumRules THEN pc' = "pass1" /\ k' = k + 1 /\ other' = other
                     ELSE pc' = "pass2" /\ k' = 1 /\ other' = content'
  /\ UNCHANGED <<file, input, stdout, applied>>

SecondPass ==
  /\ pc = "pass2"
  /\ content' = re_sub(Rules[k], content)
  /\ IF k < NumRules THEN pc' = "pass2" /\ k' = k + 1
                     ELSE pc' = "twice" /\ k' = 0
  /\ UNCHANGED <<file, input, stdout, other, applied>>

NextTwice == FirstPass \/ SecondPass

SpecTwice == InitTwice /\ [][NextTwice]_vars

(***************************************************************************)
(* C4, as stated.  A second structural pass changes nothing, and after one *)
(* pass no structural pattern has a match left.                            *)
(***************************************************************************)
Settled(t) == \A n \in 1..NumRules : ~HasMatch(Rules[n], t)

\* C4 as stated: the second pass changes nothing, for every text.
Idempotent == pc = "twice" => (content = other /\ Settled(other))

(***************************************************************************)
(* C4, amended.  The same, for every text that holds no space immediately  *)
(* followed by the quote token.                                            *)
(***************************************************************************)
IdempotentWithoutSpaceQuote ==
  (pc = "twice" /\ ~Occurs(SpaceQuoteToken, input))
  => (content = other /\ Settled(other))

IdempotentReached ==
  /\ pc = "twice"
  /\ input = Quote \o <<sp>> \o Triple
  /\ ~Occurs(SpaceQuoteToken, input)
  /\ other = <<"|", "|", sp, "=", "=", "=">>
  /\ content = other

(***************************************************************************)
(* The structural phase in code order (content) beside the structural      *)
(* phase with two of its rules exchanged (other).                          *)
(***************************************************************************)
MaxSwapFrags == 4

SwapFrags == {Box \o Box, Box \o <<sp>>, Box, Box \o <<pound>>, <<sp>>}

Pairs == {S \in SUBSET (1..NumRules) : Cardinality(S) = 2}

Exchanged(n) == IF n \in applied THEN CHOOSE m \in applied : m # n ELSE n

InitSwap ==
  /\ input \in Concats(SwapFrags, MaxSwapFrags)
  /\ applied \in Pairs
  /\ file = input
  /\ content = input
  /\ other = input
  /\ pc = "swap"
  /\ k = 1
  /\ stdout = <<>>

SwapStep ==
  /\ pc = "swap"
  /\ content' = re_sub(Rules[k], content)
  /\ other' = re_sub(Rules[Exchanged(k)], other)
  /\ IF k < NumRules THEN pc' = "swap" /\ k' = k + 1
                     ELSE pc' = "swapped" /\ k' = 0
  /\ UNCHANGED <<file, input, stdout, applied>>

NextSwap == SwapStep

SpecSwap == InitSwap /\ [][NextSwap]_vars

(***************************************************************************)
(* C7.  On the text Box Box Box ' ' Box Box U+00A3, where a junction       *)
(* border match and a triple separator prefix match share Box ' ', the     *)
(* code order and the order with rules 2 and 4 exchanged give different    *)
(* texts.                                                                  *)
(***************************************************************************)
Crafted == Box \o Box \o Box \o <<sp>> \o Box \o Box \o <<pound>>

OrderSensitive ==
  (pc = "swapped" /\ applied = {2, 4} /\ input = Crafted) => content # other

OrderSensitiveReached ==
  /\ pc = "swapped"
  /\ applied = {2, 4}
  /\ input = Crafted
  /\ content = Box \o Box \o <<"|", "|">> \o Eq(47)
  /\ other = <<"=", "=", "=", sp>> \o Box \o Box \o <<pound>>

(***************************************************************************)
(* The table's replacements applied in an order chosen freely.             *)
(***************************************************************************)
PermInputs == RowKeys

InitPerm ==
  /\ input \in PermInputs
  /\ file = input
  /\ content = input
  /\ other = <<>>
  /\ pc = "perm"
  /\ k = 0
  /\ stdout = <<>>
  /\ applied = {}

ReplaceAny ==
  /\ pc = "perm"
  /\ \E i \in (1..NumItems) \ applied :
       /\ content' = replace(content, replacements[i].old, replacements[i].new)
       /\ applied' = applied \cup {i}
       /\ pc' = IF applied' = 1..NumItems THEN "permuted" ELSE "perm"
  /\ UNCHANGED <<file, input, k, stdout, other>>

NextPerm == ReplaceAny

SpecPerm == InitPerm /\ [][NextPerm]_vars

(***************************************************************************)
(* C3.  Whatever the order in which the table's replacements are applied,  *)
(* the text that results is the one the table's own order gives.           *)
(***************************************************************************)
AnyOrderSameText == pc = "permuted" => content = Symbolic(input)

====
